---- MODULE Spec2Model ----
(***************************************************************************)
(* IntentX: the IntentRegistry ledger (contracts/IntentRegistry.sol) and   *)
(* the ExecutionManager orchestrator (contracts/ExecutionManager.sol).     *)
(*                                                                         *)
(* Transactions are serialised by the chain.  The only interleaving is     *)
(* re-entrancy: while executeSteps waits for an external venue call (the   *)
(* router or a caller-supplied token contract) the callee may call back    *)
(* into either contract.  A reverting call frame undoes every state change *)
(* made inside it, callbacks included.                                     *)
(***************************************************************************)
EXTENDS Integers, Sequences, FiniteSets, TLC

VARIABLES
    intents,             \* IntentRegistry.intents: id -> Intent
    allIntentIds,        \* IntentRegistry.allIntentIds
    userIntents,         \* IntentRegistry.userIntents
    userIntentCount,     \* IntentRegistry.userIntentCount
    executors,           \* IntentRegistry.executors (the addresses mapped to true)
    balances,            \* token holdings of the orchestrator and the venues
    eventLog,            \* the registry's events in emission order, when recorded
    totalExecutions,     \* ExecutionManager.totalExecutions
    successfulExecutions,\* ExecutionManager.successfulExecutions
    failedExecutions,    \* ExecutionManager.failedExecutions
    executionMetrics,    \* ExecutionManager.executionMetrics
    locked,              \* ExecutionManager's ReentrancyGuard status
    frame,               \* the executeIntent call in flight, NoFrame when none
    now,                 \* block.timestamp
    lastCall             \* the most recent external call and its outcome

vars == <<intents, allIntentIds, userIntents, userIntentCount, executors, balances, eventLog,
          totalExecutions, successfulExecutions, failedExecutions, executionMetrics,
          locked, frame, now, lastCall>>

-----------------------------------------------------------------------------
(* Bounds of the model *)

MaxIntents == 1      \* registrations explored
MaxExec    == 2      \* execution attempts explored
MaxStatExec == 4     \* execution attempts explored when the statistics are studied
MaxCount   == 2      \* completions by direct markIntentExecuted calls explored per intent
MaxTime    == 2      \* block timestamps explored
MaxRegs    == 2      \* registrations explored when the registry is studied alone
Amt        == 100    \* the amount every sample step moves
GasStart   == 1000   \* gasleft() on entry to executeIntent
MaxLog     == 6      \* events after which no further transaction is explored
MaxEstLen  == 3      \* longest list of steps whose estimate is explored in full
RouterBonus == 3     \* what the router may pay above the floor it was given
GasDirect  == 7      \* gasUsed argument of a direct markIntentExecuted call

(* Program constants *)

MaxSteps       == 100
MaxGasEstimate == 10000000
BaseGas        == 21000
PerStepGas     == 100000
SwapGas        == 150000
StakingGas     == 120000
SwapNumerator  == 95
SwapDenominator == 100

-----------------------------------------------------------------------------
(* Addresses *)

Null   == "0x0"
Owner  == "owner"      \* deployer of the IntentRegistry
EM     == "manager"    \* the ExecutionManager contract
Router == "router"     \* the MockRouter the manager was constructed with
Alice  == "alice"      \* an externally owned account
Bob    == "bob"        \* a contract account: registers intents, serves as token
Venue  == "venue"      \* a staking / lending protocol address

Users   == {Alice, Bob}
Callers == {Owner, Alice, Bob}
Holders == {EM, Venue, Router}

Statuses == {"Pending", "Parsed", "Executing", "Completed", "Failed", "Cancelled"}

ActionTypes == {"Swap", "Stake", "Supply", "Borrow", "Withdraw", "Unstake"}

-----------------------------------------------------------------------------
(* keccak256(abi.encodePacked(...)): modelled as the injective tuple of its *)
(* arguments; bytes32(0) is the empty tuple.                                *)

Keccak(args) == args

ZeroHash == <<>>

BogusId == Keccak(<<Null, "none", 0, 0>>)

-----------------------------------------------------------------------------
(* The state a reverting call frame restores: registry storage and token   *)
(* balances.  The manager's own storage is written only outside the        *)
(* executeSteps frame.                                                     *)

World == [intents |-> intents, allIntentIds |-> allIntentIds,
          userIntents |-> userIntents, userIntentCount |-> userIntentCount,
          executors |-> executors, balances |-> balances, eventLog |-> eventLog]

SetWorld(w) ==
    /\ intents' = w.intents
    /\ allIntentIds' = w.allIntentIds
    /\ userIntents' = w.userIntents
    /\ userIntentCount' = w.userIntentCount
    /\ executors' = w.executors
    /\ balances' = w.balances
    /\ eventLog' = w.eventLog

Exists(w, id) == id \in DOMAIN w.intents

\* The log is a history of the registry kept for its readers off chain; no
\* contract reads it.  It is recorded from a deployment under audit
\* (InitAudit) and left Unrecorded otherwise, where only storage matters.
Unrecorded == <<[type |-> "Unrecorded"]>>

\* emit: the event joins the log of the frame, and is dropped with the
\* frame's other effects if the frame reverts
Emit(w, event) ==
    IF w.eventLog = Unrecorded THEN w
    ELSE [w EXCEPT !.eventLog = Append(@, event)]

IntentRegistered(id, user, naturalLanguage, ts) ==
    [type |-> "IntentRegistered", intentId |-> id, user |-> user,
     naturalLanguage |-> naturalLanguage, timestamp |-> ts]

\* a status event that reports the new status as the old one
IntentStatusUpdated_OldLost(id, oldStatus, newStatus, ts) ==
    [type |-> "IntentStatusUpdated", intentId |-> id, oldStatus |-> newStatus,
     newStatus |-> newStatus, timestamp |-> ts]

IntentStatusUpdated(id, oldStatus, newStatus, ts) ==
    [type |-> "IntentStatusUpdated", intentId |-> id, oldStatus |-> oldStatus,
     newStatus |-> newStatus, timestamp |-> ts]

IntentExecuted(id, executor, gasUsed, ts) ==
    [type |-> "IntentExecuted", intentId |-> id, executor |-> executor,
     gasUsed |-> gasUsed, timestamp |-> ts]

ExecutorChanged(type, executor, ts) ==
    [type |-> type, executor |-> executor, timestamp |-> ts]

Ok(w)        == [ok |-> TRUE, err |-> "", w |-> w]
Revert(w, e) == [ok |-> FALSE, err |-> e, w |-> w]

-----------------------------------------------------------------------------
(* IntentRegistry *)

\* an executor check that looks at the executor set alone
IsExecutor_SetOnly(w, sender) == sender \in w.executors

\* modifier onlyExecutor
IsExecutor(w, sender) == sender \in w.executors \/ sender = Owner

\* a registration that starts the intent in Pending
NewIntent_Pending(sender, id, naturalLanguage, gasEstimate, ts) ==
    [user |-> sender, intentHash |-> id, naturalLanguage |-> naturalLanguage,
     status |-> "Pending", createdAt |-> ts, executedAt |-> 0,
     gasEstimate |-> gasEstimate, executionCount |-> 0, executionHash |-> ZeroHash]

NewIntent(sender, id, naturalLanguage, gasEstimate, ts) ==
    [user |-> sender, intentHash |-> id, naturalLanguage |-> naturalLanguage,
     status |-> "Parsed", createdAt |-> ts, executedAt |-> 0,
     gasEstimate |-> gasEstimate, executionCount |-> 0, executionHash |-> ZeroHash]

\* registerIntent deriving the id without the registry's length and storing
\* without looking for an intent already under that id
RegisterIntent_Overwrites(w, sender, naturalLanguage, gasEstimate, ts) ==
    LET id == Keccak(<<sender, naturalLanguage, ts, 0>>) IN
    IF naturalLanguage = "" \/ ~(gasEstimate > 0) \/ ~(gasEstimate <= MaxGasEstimate)
    THEN Revert(w, "invalid input")
    ELSE Ok([w EXCEPT
            !.intents = [i \in DOMAIN w.intents \cup {id} |->
                           IF i = id
                           THEN NewIntent(sender, id, naturalLanguage, gasEstimate, ts)
                           ELSE w.intents[i]],
            !.userIntents[sender] = Append(@, id),
            !.userIntentCount[sender] = @ + 1,
            !.allIntentIds = Append(@, id)])

\* a registration that forgets userIntentCount[msg.sender]++
RegisterIntent_Uncounted(w, sender, naturalLanguage, gasEstimate, ts) ==
    LET id == Keccak(<<sender, naturalLanguage, ts, Len(w.allIntentIds)>>) IN
    IF naturalLanguage = "" \/ ~(gasEstimate > 0) \/ ~(gasEstimate <= MaxGasEstimate)
    THEN Revert(w, "invalid input")
    ELSE Ok([w EXCEPT
            !.intents = [i \in DOMAIN w.intents \cup {id} |->
                           IF i = id
                           THEN NewIntent(sender, id, naturalLanguage, gasEstimate, ts)
                           ELSE w.intents[i]],
            !.userIntents[sender] = Append(@, id),
            !.allIntentIds = Append(@, id)])

RegisterIntent(w, sender, naturalLanguage, gasEstimate, ts) ==
    LET id == Keccak(<<sender, naturalLanguage, ts, Len(w.allIntentIds)>>) IN
    IF naturalLanguage = "" THEN Revert(w, "Intent description cannot be empty")
    ELSE IF ~(gasEstimate > 0) THEN Revert(w, "Gas estimate must be greater than zero")
    ELSE IF ~(gasEstimate <= MaxGasEstimate) THEN Revert(w, "Gas estimate exceeds maximum limit")
    ELSE IF Exists(w, id) THEN Revert(w, "Intent already exists")
    ELSE Ok(Emit([w EXCEPT
            !.intents = [i \in DOMAIN w.intents \cup {id} |->
                           IF i = id
                           THEN NewIntent(sender, id, naturalLanguage, gasEstimate, ts)
                           ELSE w.intents[i]],
            !.userIntents[sender] = Append(@, id),
            !.userIntentCount[sender] = @ + 1,
            !.allIntentIds = Append(@, id)],
            IntentRegistered(id, sender, naturalLanguage, ts)))

\* executedAt is stamped when the new status is Completed or Failed
\* a stamp for Completed alone
StampsExecutedAt_CompletedOnly(newStatus) == newStatus = "Completed"

StampsExecutedAt(newStatus) == newStatus = "Completed" \/ newStatus = "Failed"

UpdateIntentStatus(w, sender, id, newStatus, ts) ==
    IF ~IsExecutor(w, sender) THEN Revert(w, "onlyExecutor")
    ELSE IF ~Exists(w, id) THEN Revert(w, "Intent does not exist")
    ELSE Ok(Emit([w EXCEPT
            !.intents[id].status = newStatus,
            !.intents[id].executedAt = IF StampsExecutedAt(newStatus) THEN ts ELSE @],
            IntentStatusUpdated(id, w.intents[id].status, newStatus, ts)))

\* require(intent.status != IntentStatus.Completed, ...) of markIntentExecuted
NotYetCompleted(intent) == intent.status # "Completed"

MarkIntentExecuted(w, sender, id, gasUsed, ts) ==
    IF ~IsExecutor(w, sender) THEN Revert(w, "onlyExecutor")
    ELSE IF ~Exists(w, id) THEN Revert(w, "Intent does not exist")
    ELSE IF ~NotYetCompleted(w.intents[id]) THEN Revert(w, "Intent already completed")
    ELSE Ok(Emit(Emit([w EXCEPT
            !.intents[id].status = "Completed",
            !.intents[id].executedAt = ts,
            !.intents[id].executionCount = @ + 1,
            !.intents[id].executionHash = Keccak(<<id, gasUsed, ts>>)],
            IntentExecuted(id, sender, gasUsed, ts)),
            IntentStatusUpdated(id, w.intents[id].status, "Completed", ts)))

\* the creator test widened to let the registry owner cancel
IsCreator_OrOwner(intent, sender) == sender = intent.user \/ sender = Owner

\* require(msg.sender == intent.user, ...) of cancelIntent
IsCreator(intent, sender) == sender = intent.user

\* require(intent.status != IntentStatus.Completed, ...) of cancelIntent
Cancellable(intent) == intent.status # "Completed"

CancelIntent(w, sender, id, ts) ==
    IF ~Exists(w, id) THEN Revert(w, "Intent does not exist")
    ELSE IF ~IsCreator(w.intents[id], sender) THEN Revert(w, "Only intent creator can cancel")
    ELSE IF ~Cancellable(w.intents[id]) THEN Revert(w, "Cannot cancel completed intent")
    ELSE Ok(Emit([w EXCEPT !.intents[id].status = "Cancelled"],
                 IntentStatusUpdated(id, w.intents[id].status, "Cancelled", ts)))

\* the views of the registry
GetUserIntents(w, user) == w.userIntents[user]

GetUserIntentCount(w, user) == w.userIntentCount[user]

GetIntentCount(w) == Len(w.allIntentIds)

GetIntent(w, id) == w.intents[id]

\* addExecutor without its onlyOwner modifier
AddExecutor_Anyone(w, sender, executor, ts) ==
    IF executor = Null THEN Revert(w, "Invalid executor address")
    ELSE IF executor \in w.executors THEN Revert(w, "Address is already an executor")
    ELSE Ok(Emit([w EXCEPT !.executors = @ \cup {executor}],
                 ExecutorChanged("ExecutorAdded", executor, ts)))

AddExecutor(w, sender, executor, ts) ==
    IF sender # Owner THEN Revert(w, "Only owner can call this function")
    ELSE IF executor = Null THEN Revert(w, "Invalid executor address")
    ELSE IF executor \in w.executors THEN Revert(w, "Address is already an executor")
    ELSE Ok(Emit([w EXCEPT !.executors = @ \cup {executor}],
                 ExecutorChanged("ExecutorAdded", executor, ts)))

RemoveExecutor(w, sender, executor, ts) ==
    IF sender # Owner THEN Revert(w, "Only owner can call this function")
    ELSE IF executor = Null THEN Revert(w, "Invalid executor address")
    ELSE IF executor \notin w.executors THEN Revert(w, "Address is not an executor")
    ELSE IF executor = Owner THEN Revert(w, "Cannot remove owner as executor")
    ELSE Ok(Emit([w EXCEPT !.executors = @ \ {executor}],
                 ExecutorChanged("ExecutorRemoved", executor, ts)))

-----------------------------------------------------------------------------
(* ExecutionManager: steps *)

Token == "token"       \* an ERC20 contract that never calls back

Step(actionType, protocol, tokenIn, tokenOut, amount, minOutput) ==
    [actionType |-> actionType, protocol |-> protocol, tokenIn |-> tokenIn,
     tokenOut |-> tokenOut, amount |-> amount, minOutput |-> minOutput]

\* uint256 outputAmount = (step.amount * 95) / 100
SwapOutput(step) == (step.amount * SwapNumerator) \div SwapDenominator

\* executeSwap without the floor on its output
SwapCheck_NoFloor(step) ==
    IF ~(step.tokenIn # Null /\ step.tokenOut # Null) THEN "Invalid token addresses"
    ELSE IF ~(step.minOutput > 0) THEN "Minimum output must be specified"
    ELSE ""

\* the requires of executeSwap that precede the router call
SwapCheck(step) ==
    IF ~(step.tokenIn # Null /\ step.tokenOut # Null) THEN "Invalid token addresses"
    ELSE IF ~(step.minOutput > 0) THEN "Minimum output must be specified"
    ELSE IF ~(SwapOutput(step) >= step.minOutput) THEN "Output below minimum acceptable"
    ELSE ""

\* the requires a step passes before its venue is called: "" when it passes
StepCheck(step) ==
    IF ~(step.amount > 0) THEN "Step amount must be greater than zero"
    ELSE IF step.protocol = Null THEN "Invalid protocol address"
    ELSE IF step.actionType = "Swap" THEN SwapCheck(step)
    ELSE IF step.actionType \in {"Stake", "Supply"}
         THEN (IF step.tokenIn = Null THEN "Invalid token address" ELSE "")
    ELSE (IF step.tokenOut = Null THEN "Invalid token address" ELSE "")

\* executeBorrow makes no external call; every other handler calls a contract
HasExternalCall(step) == step.actionType # "Borrow"

\* the contract a handler calls: the router, or the token whose
\* safeTransferFrom it invokes
Callee(step) ==
    IF step.actionType = "Swap" THEN Router
    ELSE IF step.actionType \in {"Stake", "Supply"} THEN step.tokenIn
    ELSE step.tokenOut

\* the value a handler returns to executeSteps
StepOutput(step) == IF step.actionType = "Swap" THEN SwapOutput(step) ELSE step.amount

\* safeTransferFrom(from, to, amount) on a token that honours the transfer
Transfer(w, from, to, amount) ==
    [w EXCEPT !.balances = [h \in DOMAIN w.balances |->
        IF h = from /\ h = to THEN w.balances[h]
        ELSE IF h = from THEN w.balances[h] - amount
        ELSE IF h = to THEN w.balances[h] + amount
        ELSE w.balances[h]]]

\* the account a step debits
Payer(step) ==
    IF step.actionType \in {"Swap", "Stake", "Supply"} THEN EM ELSE step.protocol

\* router.swapExactTokensForTokens: the manager pays amount and is paid the
\* realized output; the router keeps the difference
RouterSwap(w, step) == Transfer(w, EM, Router, step.amount - SwapOutput(step))

\* what a venue call that returns normally may report as its output: the
\* router anything from the floor it was given (minOutput) upwards, here the
\* floor itself or RouterBonus above it; the other venues the amount moved
VenueOutputs(step) ==
    IF step.actionType = "Swap"
    THEN {step.minOutput, step.minOutput + RouterBonus}
    ELSE {step.amount}

\* the value movement of a venue call that returns normally
VenueEffect(w, step) ==
    IF step.actionType = "Swap"
    THEN RouterSwap(w, step)
    ELSE IF step.actionType \in {"Stake", "Supply"}
    THEN Transfer(w, EM, step.protocol, step.amount)
    ELSE Transfer(w, step.protocol, EM, step.amount)

\* totalOutput += stepOutput over steps lo..hi
RECURSIVE SumOutput(_, _, _)
SumOutput(steps, lo, hi) ==
    IF lo > hi THEN 0
    ELSE IF lo = hi THEN StepOutput(steps[lo])
    ELSE LET mid == (lo + hi) \div 2
         IN SumOutput(steps, lo, mid) + SumOutput(steps, mid + 1, hi)

\* the first step from i on at which the loop of executeSteps leaves the
\* manager's own code: a failing require or an external call; Len + 1 if none
NextStop(steps, i) ==
    LET stops == {j \in i..Len(steps) :
                     StepCheck(steps[j]) # "" \/ HasExternalCall(steps[j])}
    IN IF stops = {} THEN Len(steps) + 1
       ELSE CHOOSE j \in stops : \A k \in stops : j <= k

\* the loop of executeSteps from step i up to the next external call, the
\* first failing require, or the end of the list.  trace lists the steps the
\* loop entered, out is totalOutput
RunSteps(steps, i, out, trace) ==
    LET j   == NextStop(steps, i)
        o   == out + SumOutput(steps, i, j - 1)
        upto(n) == trace \o [k \in 1..(n - i + 1) |-> i + k - 1]
    IN IF j > Len(steps)
       THEN [kind |-> "done", i |-> j, out |-> o, trace |-> upto(Len(steps)),
             reason |-> "", surplus |-> 0]
       ELSE IF StepCheck(steps[j]) # ""
       THEN [kind |-> "error", i |-> j, out |-> o, trace |-> upto(j),
             reason |-> StepCheck(steps[j]), surplus |-> 0]
       ELSE [kind |-> "venue", i |-> j, out |-> o, trace |-> upto(j), reason |-> "",
             surplus |-> 0]

-----------------------------------------------------------------------------
(* ExecutionManager: executeIntent *)

NoFrame == [id |-> BogusId]

InFlight == frame # NoFrame

ZeroMetrics == [startGas |-> 0, endGas |-> 0, gasUsed |-> 0,
                executionTime |-> 0, success |-> FALSE]

MetricsOf(id) ==
    IF id \in DOMAIN executionMetrics THEN executionMetrics[id] ELSE ZeroMetrics

\* gas is metered in units of one step entered by the loop of executeSteps
GasUsed(trace) == Len(trace)

Metrics(gasUsed, executionTime, success) ==
    [startGas |-> GasStart, endGas |-> GasStart - gasUsed, gasUsed |-> gasUsed,
     executionTime |-> executionTime, success |-> success]

RecordMetrics(id, m) ==
    executionMetrics' = [i \in DOMAIN executionMetrics \cup {id} |->
                            IF i = id THEN m ELSE executionMetrics[i]]

\* require(steps.length > 0) and require(steps.length <= 100)
StepCountCheck(steps) ==
    IF ~(Len(steps) > 0) THEN "Must provide at least one execution step"
    ELSE IF ~(Len(steps) <= MaxSteps) THEN "Too many execution steps"
    ELSE ""

\* the status test loosened to "not yet completed"
ReadyForExecution_NotCompleted(intent) == intent.status # "Completed"

\* a precondition that lets a Failed intent be attempted again
ReadyForExecution_OrFailed(intent) == intent.status \in {"Parsed", "Failed"}

\* require(intent.status == IntentRegistry.IntentStatus.Parsed, ...)
ReadyForExecution(intent) == intent.status = "Parsed"

\* a guard that lets a nested call through
NonReentrant_Off(isLocked) == TRUE

\* the nonReentrant modifier: passes when no guarded call is on the stack
NonReentrant(isLocked) == ~isLocked

\* modifiers and requires of executeIntent, in order: "" when the call proceeds
ExecuteIntentCheck(w, isLocked, caller, id, steps) ==
    IF ~Exists(w, id) THEN "Intent does not exist"
    ELSE IF ~NonReentrant(isLocked) THEN "ReentrancyGuard: reentrant call"
    ELSE IF StepCountCheck(steps) # "" THEN StepCountCheck(steps)
    ELSE IF ~ReadyForExecution(w.intents[id]) THEN "Intent not ready for execution"
    ELSE ""

\* a catch branch that reports the marker whatever was caught
FailureReason_Marker(run) == "Low level execution error"

\* the event reason of a failed attempt
FailureReason(run) ==
    IF run.kind = "error" THEN run.reason ELSE "Low level execution error"

\* the events of ExecutionManager a call of executeIntent has emitted so far
\* and that its outcome ret leaves in the log
ManagerEvents(id, steps, run, ret) ==
    LET started == [type |-> "IntentExecutionStarted", intentId |-> id,
                    stepsCount |-> Len(steps)]
    IN
    IF ret = "revert" THEN << >>
    ELSE IF ret = "pending" THEN <<started>>
    ELSE IF ret = "true"
    THEN <<started,
           [type |-> "IntentExecutionCompleted", intentId |-> id,
            gasUsed |-> GasUsed(run.trace), totalOutput |-> run.out],
           [type |-> "ExecutionMetricsRecorded", intentId |-> id,
            gasUsed |-> GasUsed(run.trace)]>>
    ELSE <<started,
           [type |-> "IntentExecutionFailed", intentId |-> id,
            reason |-> FailureReason(run)]>>

\* kind and raised tell how executeSteps ended and what it reverted with;
\* reason is the reason of the failure event
ExecCall(caller, id, steps, pre, err, ret, run) ==
    [op |-> "executeIntent", caller |-> caller, id |-> id, err |-> err,
     plan |-> steps, pre |-> pre, ret |-> ret,
     kind |-> run.kind, raised |-> run.reason,
     reason |-> IF run.kind \in {"error", "lowlevel"} THEN FailureReason(run) ELSE "",
     failedAt |-> IF run.kind \in {"error", "lowlevel"} THEN run.i ELSE 0,
     out |-> run.out, trace |-> run.trace, realized |-> run.out + run.surplus,
     events |-> ManagerEvents(id, steps, run, ret)]

\* a revert that leaves totalExecutions++ behind
TxRevert_CountKept(call, snap, total) ==
    /\ SetWorld(snap)
    /\ totalExecutions' = total + 1
    /\ UNCHANGED <<successfulExecutions, failedExecutions, executionMetrics>>
    /\ lastCall' = call

\* the whole transaction reverts: storage as it was when executeIntent was
\* entered; total is totalExecutions at that time
TxRevert(call, snap, total) ==
    /\ SetWorld(snap)
    /\ totalExecutions' = total
    /\ UNCHANGED <<successfulExecutions, failedExecutions, executionMetrics>>
    /\ lastCall' = call

\* executeSteps run as an internal call: a failure keeps what the steps did
RolledBack_Kept(w, snap) == w

\* the state executeSteps leaves behind when it reverts: that of its entry
RolledBack(w, snap) == snap

\* the catch branches: "error" is catch Error(string), "lowlevel" is
\* catch (bytes); only the former writes executionMetrics
CatchWritesMetrics(kind) == kind = "error"

\* a low-level catch branch that forgets failedExecutions++
FailedAfterCatch_LowLevelLost(kind) ==
    IF kind = "error" THEN failedExecutions + 1 ELSE failedExecutions

\* failedExecutions++ of either catch branch
FailedAfterCatch(kind) == failedExecutions + 1

\* the try statement of executeIntent once executeSteps has returned or
\* reverted.  w is storage at that point, snap storage at entry, total the
\* value of totalExecutions at entry
Conclude(caller, id, steps, run, w, snap, total) ==
    LET gasUsed == GasUsed(run.trace)
        call(err, ret) == ExecCall(caller, id, steps, snap, err, ret, run)
    IN
    /\ locked' = FALSE
    /\ frame' = NoFrame
    /\ UNCHANGED now
    /\ IF run.kind = "done"
       THEN LET r == MarkIntentExecuted(w, EM, id, gasUsed, now) IN
            IF r.ok
            THEN /\ SetWorld(r.w)
                 /\ totalExecutions' = total + 1
                 /\ successfulExecutions' = successfulExecutions + 1
                 /\ UNCHANGED failedExecutions
                 /\ RecordMetrics(id, Metrics(gasUsed, 0, TRUE))
                 /\ lastCall' = call("", "true")
            ELSE TxRevert(call(r.err, "revert"), snap, total)
       ELSE LET r == UpdateIntentStatus(RolledBack(w, snap), EM, id, "Failed", now) IN
            IF r.ok
            THEN /\ SetWorld(r.w)
                 /\ totalExecutions' = total + 1
                 /\ failedExecutions' = FailedAfterCatch(run.kind)
                 /\ UNCHANGED successfulExecutions
                 /\ IF CatchWritesMetrics(run.kind)
                    THEN RecordMetrics(id, Metrics(gasUsed, 0, FALSE))
                    ELSE UNCHANGED executionMetrics
                 /\ lastCall' = call("", "false")
            ELSE TxRevert(call(r.err, "revert"), snap, total)

-----------------------------------------------------------------------------
(* ExecutionManager: views *)

\* an estimate that charges every step the generic cost
StepGas_Flat(step) == PerStepGas

\* what the loop of estimateGas adds for one step
StepGas(step) ==
    IF step.actionType = "Swap" THEN SwapGas
    ELSE IF step.actionType = "Stake" \/ step.actionType = "Unstake" THEN StakingGas
    ELSE PerStepGas

\* totalGas += ... over steps lo..hi
RECURSIVE SumGas(_, _, _)
SumGas(steps, lo, hi) ==
    IF lo > hi THEN 0
    ELSE IF lo = hi THEN StepGas(steps[lo])
    ELSE LET mid == (lo + hi) \div 2
         IN SumGas(steps, lo, mid) + SumGas(steps, mid + 1, hi)

\* estimateGas: [ok, err, gas]
EstimateGas(steps) ==
    IF ~(Len(steps) > 0)
    THEN [ok |-> FALSE, err |-> "Must provide at least one step", gas |-> 0]
    ELSE [ok |-> TRUE, err |-> "", gas |-> BaseGas + SumGas(steps, 1, Len(steps))]

\* a rate that divides before it multiplies
GetSuccessRate_DivideFirst(total, successful) ==
    IF total = 0 THEN 0 ELSE (successful \div total) * 100

\* getSuccessRate, as a function of the counters it reads
GetSuccessRate(total, successful) ==
    IF total = 0 THEN 0 ELSE (successful * 100) \div total

-----------------------------------------------------------------------------
(* Sample inputs *)

Description == "swap 100 A for B"

\* (description, gas estimate) pairs: one valid, one for each failing require
Registrations == {<<Description, 150000>>, <<"", 150000>>, <<Description, 0>>,
                  <<Description, MaxGasEstimate + 1>>}

\* the same with the smallest and the largest estimate accepted
RegistrationsAtLimits ==
    Registrations \cup {<<Description, 1>>, <<Description, MaxGasEstimate>>}

StakeStep(token)  == Step("Stake", Venue, token, Null, Amt, 0)
SupplyStep(token) == Step("Supply", Venue, token, Null, Amt, 0)
BorrowStep        == Step("Borrow", Venue, Null, Token, Amt, 0)
WithdrawStep      == Step("Withdraw", Venue, Null, Token, Amt, 0)
UnstakeStep       == Step("Unstake", Venue, Null, Token, Amt, 0)
SwapStep(minOutput) == Step("Swap", Router, Token, Bob, Amt, minOutput)

\* the largest minOutput the simulated swap of Amt satisfies
MinOk == (Amt * SwapNumerator) \div SwapDenominator

NoSteps        == << >>
TooManySteps   == [k \in 1..(MaxSteps + 1) |-> BorrowStep]
LongestPlan    == [k \in 1..MaxSteps |-> BorrowStep]
SwapPlan       == <<SwapStep(MinOk)>>
SlippagePlan   == <<SwapStep(MinOk + 1)>>
FiveStepPlan   == <<StakeStep(Token), SupplyStep(Token), SwapStep(MinOk + 1),
                    WithdrawStep, UnstakeStep>>
AllTypesPlan   == <<SupplyStep(Token), BorrowStep, UnstakeStep>>
CallbackPlan   == <<StakeStep(Bob), BorrowStep>>
ZeroAmountPlan == <<BorrowStep, Step("Stake", Venue, Token, Null, 0, 0)>>
NoProtocolPlan == <<Step("Supply", Null, Token, Null, Amt, 0)>>
BadSwapPlan    == <<Step("Swap", Router, Token, Bob, Amt, 0)>>

Plans == {NoSteps, TooManySteps, LongestPlan, SwapPlan, SlippagePlan, FiveStepPlan,
          AllTypesPlan, CallbackPlan, ZeroAmountPlan, NoProtocolPlan, BadSwapPlan}

Ids == DOMAIN intents \cup {BogusId}

-----------------------------------------------------------------------------
(* Initial state: both contracts constructed, the manager not yet          *)
(* registered as an executor, the venues and the manager holding tokens.   *)

NoCall == [op |-> "none"]

Constructed ==
    /\ intents = << >>
    /\ allIntentIds = << >>
    /\ userIntents = [u \in Users |-> << >>]
    /\ userIntentCount = [u \in Users |-> 0]
    /\ executors = {}
    /\ balances = [h \in Holders |-> 2 * Amt]
    /\ totalExecutions = 0
    /\ successfulExecutions = 0
    /\ failedExecutions = 0
    /\ executionMetrics = << >>
    /\ locked = FALSE
    /\ frame = NoFrame
    /\ now = 1
    /\ lastCall = NoCall

Init == Constructed /\ eventLog = Unrecorded

\* the same deployment with the registry's log recorded from the start
InitAudit == Constructed /\ eventLog = << >>

-----------------------------------------------------------------------------
(* Calls.  An account calls at top level when no attempt is in flight; the *)
(* contract a pending venue call has entered may call back.  lastCall      *)
(* holds a call's outcome until Settle hands it to its observer.           *)

MayCall(c) ==
    /\ lastCall = NoCall
    /\ IF InFlight THEN c = Callee(frame.steps[frame.i]) ELSE TRUE

ManagerUnchanged ==
    UNCHANGED <<totalExecutions, successfulExecutions, failedExecutions,
                executionMetrics, locked, frame, now>>

RegistryCall(op, c, id, r) ==
    /\ SetWorld(r.w)
    /\ lastCall' = [op |-> op, caller |-> c, id |-> id, err |-> r.err]
    /\ ManagerUnchanged

RegisterIntentCall(c, nl, gas) ==
    /\ MayCall(c)
    /\ LET r == RegisterIntent(World, c, nl, gas, now) IN
       /\ SetWorld(r.w)
       /\ lastCall' = [op |-> "registerIntent", caller |-> c,
                       id |-> Keccak(<<c, nl, now, Len(allIntentIds)>>), err |-> r.err,
                       naturalLanguage |-> nl, gasEstimate |-> gas]
       /\ ManagerUnchanged

UpdateIntentStatusCall(c, id, newStatus) ==
    /\ MayCall(c)
    /\ RegistryCall("updateIntentStatus", c, id,
                    UpdateIntentStatus(World, c, id, newStatus, now))

MarkIntentExecutedCall(c, id) ==
    /\ MayCall(c)
    /\ LET r == MarkIntentExecuted(World, c, id, GasDirect, now) IN
       /\ r.ok => intents[id].executionCount < MaxCount
       /\ RegistryCall("markIntentExecuted", c, id, r)

CancelIntentCall(c, id) ==
    /\ MayCall(c)
    /\ RegistryCall("cancelIntent", c, id, CancelIntent(World, c, id, now))

\* addExecutor and removeExecutor name an address, not an intent
AccessCall(op, c, e, r) ==
    /\ SetWorld(r.w)
    /\ lastCall' = [op |-> op, caller |-> c, id |-> BogusId, err |-> r.err,
                    executor |-> e]
    /\ ManagerUnchanged

AddExecutorCall(c, e) ==
    /\ MayCall(c)
    /\ AccessCall("addExecutor", c, e, AddExecutor(World, c, e, now))

RemoveExecutorCall(c, e) ==
    /\ MayCall(c)
    /\ AccessCall("removeExecutor", c, e, RemoveExecutor(World, c, e, now))

NoRun == [kind |-> "none", i |-> 0, out |-> 0, trace |-> << >>, reason |-> "",
          surplus |-> 0]

ExecuteIntentCall(c, id, steps) ==
    /\ MayCall(c)
    /\ LET e == ExecuteIntentCheck(World, locked, c, id, steps) IN
       IF e # ""
       THEN /\ lastCall' = ExecCall(c, id, steps, World, e, "revert", NoRun)
            /\ UNCHANGED <<intents, allIntentIds, userIntents, userIntentCount,
                           executors, balances, eventLog>>
            /\ ManagerUnchanged
       ELSE LET run == RunSteps(steps, 1, 0, << >>) IN
            IF run.kind = "venue"
            THEN /\ totalExecutions' = totalExecutions + 1
                 /\ locked' = TRUE
                 /\ frame' = [id |-> id, steps |-> steps, caller |-> c, i |-> run.i,
                              out |-> run.out, trace |-> run.trace, snap |-> World,
                              surplus |-> 0]
                 /\ lastCall' = ExecCall(c, id, steps, World, "", "pending", run)
                 /\ UNCHANGED <<intents, allIntentIds, userIntents, userIntentCount,
                                executors, balances, eventLog, successfulExecutions,
                                failedExecutions, executionMetrics, now>>
            ELSE Conclude(c, id, steps, run, World, World, totalExecutions)

\* pure: callable by anyone at any time
EstimateGasCall(c, steps) ==
    /\ MayCall(c)
    /\ LET r == EstimateGas(steps) IN
       lastCall' = [op |-> "estimateGas", caller |-> c, id |-> BogusId, err |-> r.err,
                    plan |-> steps, ret |-> r.gas]
    /\ UNCHANGED <<intents, allIntentIds, userIntents, userIntentCount, executors,
                   balances, eventLog, totalExecutions, successfulExecutions, failedExecutions,
                   executionMetrics, locked, frame, now>>

\* a view: readable by anyone, and by the entered contract during a venue call
GetSuccessRateCall(c) ==
    /\ MayCall(c)
    /\ lastCall' = [op |-> "getSuccessRate", caller |-> c, id |-> BogusId, err |-> "",
                    ret |-> GetSuccessRate(totalExecutions, successfulExecutions)]
    /\ UNCHANGED <<intents, allIntentIds, userIntents, userIntentCount, executors,
                   balances, eventLog, totalExecutions, successfulExecutions, failedExecutions,
                   executionMetrics, locked, frame, now>>

\* the pending venue call returns normally, reverts with a reason string,
\* or fails without one
VenueReturn(outcome) ==
    /\ InFlight
    /\ lastCall = NoCall
    /\ LET step == frame.steps[frame.i]
           total == totalExecutions - 1
       IN
       IF outcome = "ok"
       THEN /\ balances[Payer(step)] >= step.amount
            /\ \E realized \in VenueOutputs(step) :
               LET w   == VenueEffect(World, step)
                   more == frame.surplus + (realized - StepOutput(step))
                   run == [RunSteps(frame.steps, frame.i + 1,
                                    frame.out + StepOutput(step), frame.trace)
                              EXCEPT !.surplus = more]
               IN IF run.kind = "venue"
                  THEN /\ SetWorld(w)
                       /\ frame' = [frame EXCEPT !.i = run.i, !.out = run.out,
                                                 !.trace = run.trace, !.surplus = more]
                       /\ UNCHANGED <<totalExecutions, successfulExecutions,
                                      failedExecutions, executionMetrics, locked,
                                      now, lastCall>>
                  ELSE Conclude(frame.caller, frame.id, frame.steps, run, w,
                                frame.snap, total)
       ELSE Conclude(frame.caller, frame.id, frame.steps,
                     [kind |-> outcome, i |-> frame.i, out |-> frame.out,
                      trace |-> frame.trace,
                      reason |-> IF outcome = "error" THEN "venue rejected the call"
                                 ELSE "",
                      surplus |-> frame.surplus],
                     World, frame.snap, total)

Settle ==
    /\ lastCall # NoCall
    /\ lastCall' = NoCall
    /\ UNCHANGED <<intents, allIntentIds, userIntents, userIntentCount, executors,
                   balances, eventLog, totalExecutions, successfulExecutions, failedExecutions,
                   executionMetrics, locked, frame, now>>

\* a block is mined
Tick ==
    /\ ~InFlight
    /\ lastCall = NoCall
    /\ now < MaxTime
    /\ now' = now + 1
    /\ UNCHANGED <<intents, allIntentIds, userIntents, userIntentCount, executors,
                   balances, eventLog, totalExecutions, successfulExecutions, failedExecutions,
                   executionMetrics, locked, frame, lastCall>>

-----------------------------------------------------------------------------
(* The whole system: every operation, every caller *)

Next ==
    \/ /\ Len(allIntentIds) < MaxIntents
       /\ \E c \in Users, reg \in Registrations : RegisterIntentCall(c, reg[1], reg[2])
    \/ \E c \in Callers, id \in Ids, st \in Statuses : UpdateIntentStatusCall(c, id, st)
    \/ \E c \in Callers, id \in Ids : MarkIntentExecutedCall(c, id)
    \/ \E c \in Callers, id \in Ids : CancelIntentCall(c, id)
    \/ \E c \in Callers, e \in {EM, Bob, Null} : AddExecutorCall(c, e)
    \/ \E c \in Callers, e \in {EM, Bob, Null} : RemoveExecutorCall(c, e)
    \/ /\ totalExecutions < MaxExec
       /\ \E c \in Callers, id \in Ids, steps \in Plans : ExecuteIntentCall(c, id, steps)
    \/ \E outcome \in {"ok", "error", "lowlevel"} : VenueReturn(outcome)
    \/ \E c \in Callers : GetSuccessRateCall(c)
    \/ \E steps \in Plans \ {TooManySteps} : EstimateGasCall(Alice, steps)
    \/ Settle

Spec == Init /\ [][Next]_vars

-----------------------------------------------------------------------------
(* The deployed system at work: the registry owner administers the manager *)
(* as executor and sets statuses, users register, cancel and execute.      *)

ExecPlans == {NoSteps, SwapPlan, SlippagePlan, FiveStepPlan, CallbackPlan,
              ZeroAmountPlan}

NextExec ==
    \/ /\ Len(allIntentIds) < MaxIntents
       /\ \E c \in Users : RegisterIntentCall(c, Description, 150000)
    \/ \E id \in DOMAIN intents, st \in Statuses : UpdateIntentStatusCall(Owner, id, st)
    \/ \E c \in Users, id \in DOMAIN intents : CancelIntentCall(c, id)
    \/ AddExecutorCall(Owner, EM)
    \/ /\ totalExecutions < MaxExec
       /\ \E c \in Users, id \in Ids, steps \in ExecPlans : ExecuteIntentCall(c, id, steps)
    \/ \E outcome \in {"ok", "error", "lowlevel"} : VenueReturn(outcome)
    \/ Settle

SpecExec == Init /\ [][NextExec]_vars

-----------------------------------------------------------------------------
(* The registry on its own, over several blocks: every caller, every       *)
(* operation of the ledger.                                                *)

NextLedger ==
    \/ /\ Len(allIntentIds) < MaxIntents
       /\ RegisterIntentCall(Alice, Description, 150000)
    \/ \E c \in Callers, id \in Ids, st \in Statuses : UpdateIntentStatusCall(c, id, st)
    \/ \E c \in Callers, id \in Ids : MarkIntentExecutedCall(c, id)
    \/ \E c \in Callers, id \in Ids : CancelIntentCall(c, id)
    \/ \E c \in Callers : AddExecutorCall(c, Bob)
    \/ \E c \in Callers : RemoveExecutorCall(c, Bob)
    \/ Tick
    \/ Settle

SpecLedger == Init /\ [][NextLedger]_vars

-----------------------------------------------------------------------------
(* The life of an intent in the registry: its creator registers and        *)
(* cancels, the owner acts as executor, blocks pass.                       *)

NextLifecycle ==
    \/ /\ Len(allIntentIds) < MaxIntents
       /\ RegisterIntentCall(Alice, Description, 150000)
    \/ \E id \in Ids, st \in Statuses : UpdateIntentStatusCall(Owner, id, st)
    \/ \E id \in Ids : MarkIntentExecutedCall(Owner, id)
    \/ \E id \in Ids : CancelIntentCall(Alice, id)
    \/ Tick
    \/ Settle

SpecLifecycle == Init /\ [][NextLifecycle]_vars

-----------------------------------------------------------------------------
(* Access control: every caller adds and removes every address, the owner  *)
(* included, and tries the executor-only functions.                        *)

Executors == {Owner, EM, Bob, Null}

NextAccess ==
    \/ /\ Len(allIntentIds) < MaxIntents
       /\ RegisterIntentCall(Alice, Description, 150000)
    \/ \E c \in Callers, e \in Executors : AddExecutorCall(c, e)
    \/ \E c \in Callers, e \in Executors : RemoveExecutorCall(c, e)
    \/ \E c \in Callers, id \in Ids : UpdateIntentStatusCall(c, id, "Failed")
    \/ \E c \in Callers, id \in Ids : MarkIntentExecutedCall(c, id)
    \/ Settle

SpecAccess == Init /\ [][NextAccess]_vars

-----------------------------------------------------------------------------
(* The statistics: attempts that complete, fail on a require and fail in a *)
(* venue call, on several intents; the owner makes an intent Parsed again. *)

BorrowPlan == <<BorrowStep>>

StatPlans == {BorrowPlan, ZeroAmountPlan, CallbackPlan}

NextStats ==
    \/ /\ Len(allIntentIds) < MaxRegs
       /\ RegisterIntentCall(Alice, Description, 150000)
    \/ AddExecutorCall(Owner, EM)
    \/ \E id \in DOMAIN intents : UpdateIntentStatusCall(Owner, id, "Parsed")
    \/ /\ totalExecutions < MaxStatExec
       /\ \E id \in DOMAIN intents, steps \in StatPlans :
             ExecuteIntentCall(Alice, id, steps)
    \/ \E outcome \in {"ok", "error", "lowlevel"} : VenueReturn(outcome)
    \/ \E c \in Users : GetSuccessRateCall(c)
    \/ Settle

SpecStats == Init /\ [][NextStats]_vars

-----------------------------------------------------------------------------
(* The registry's log under audit: registration, status changes by the     *)
(* owner, cancellation by the creator and execution attempts that          *)
(* complete, fail and revert as a whole.                                   *)

AuditStatuses == {"Parsed", "Executing", "Failed"}

AuditPlans == {BorrowPlan, ZeroAmountPlan, CallbackPlan}

NextAudit ==
    \/ /\ Len(eventLog) < MaxLog
       /\ \/ /\ Len(allIntentIds) < MaxIntents
             /\ RegisterIntentCall(Alice, Description, 150000)
          \/ \E id \in Ids, st \in AuditStatuses : UpdateIntentStatusCall(Owner, id, st)
          \/ \E id \in Ids : MarkIntentExecutedCall(Owner, id)
          \/ \E id \in Ids : CancelIntentCall(Alice, id)
          \/ AddExecutorCall(Owner, EM)
          \/ /\ totalExecutions < MaxExec
             /\ \E id \in DOMAIN intents, steps \in AuditPlans :
                   ExecuteIntentCall(Alice, id, steps)
    \/ \E outcome \in {"ok", "error", "lowlevel"} : VenueReturn(outcome)
    \/ Settle

SpecAudit == InitAudit /\ [][NextAudit]_vars

-----------------------------------------------------------------------------
(* The registry's indexes: two users register in turn while intents are    *)
(* updated by the manager, cancelled by their creators and executed (the   *)
(* manager then calls markIntentExecuted or updateIntentStatus).           *)

IndexPlans == {BorrowPlan, ZeroAmountPlan}

NextIndex ==
    \/ /\ Len(allIntentIds) < MaxRegs
       /\ \E c \in Users : RegisterIntentCall(c, Description, 150000)
    \/ \E id \in DOMAIN intents : UpdateIntentStatusCall(EM, id, "Executing")
    \/ \E id \in DOMAIN intents : CancelIntentCall(intents[id].user, id)
    \/ AddExecutorCall(Owner, EM)
    \/ /\ totalExecutions < MaxExec
       /\ \E id \in DOMAIN intents, steps \in IndexPlans :
             ExecuteIntentCall(Alice, id, steps)
    \/ Settle

SpecIndex == Init /\ [][NextIndex]_vars

-----------------------------------------------------------------------------
(* Statuses changed by registration, cancellation and execution alone: no  *)
(* executor calls updateIntentStatus or markIntentExecuted directly.  The  *)
(* number of attempts is not capped.                                       *)

NextOrchestrated ==
    \/ /\ Len(allIntentIds) < MaxRegs
       /\ \E c \in Users : RegisterIntentCall(c, Description, 150000)
    \/ \E c \in Users, id \in DOMAIN intents : CancelIntentCall(c, id)
    \/ AddExecutorCall(Owner, EM)
    \/ \E c \in Users, id \in DOMAIN intents, steps \in StatPlans :
          ExecuteIntentCall(c, id, steps)
    \/ \E outcome \in {"ok", "error", "lowlevel"} : VenueReturn(outcome)
    \/ Settle

SpecOrchestrated == Init /\ [][NextOrchestrated]_vars

-----------------------------------------------------------------------------
(* Cost estimation on its own: every list of up to MaxEstLen steps, one    *)
(* sample step per action type.                                            *)

StepOfType(t) ==
    IF t = "Swap" THEN SwapStep(MinOk)
    ELSE IF t = "Stake" THEN StakeStep(Token)
    ELSE IF t = "Supply" THEN SupplyStep(Token)
    ELSE IF t = "Borrow" THEN BorrowStep
    ELSE IF t = "Withdraw" THEN WithdrawStep
    ELSE UnstakeStep

EstimatePlans ==
    UNION {[1..n -> {StepOfType(t) : t \in ActionTypes}] : n \in 0..MaxEstLen}

NextEstimate ==
    \/ \E c \in Users, steps \in EstimatePlans : EstimateGasCall(c, steps)
    \/ Settle

SpecEstimate == Init /\ [][NextEstimate]_vars

-----------------------------------------------------------------------------
(* Registration on its own: every user, valid and invalid arguments,       *)
(* several registrations within one block and across blocks.               *)

NextRegister ==
    \/ /\ Len(allIntentIds) < MaxRegs
       /\ \E c \in Users, reg \in RegistrationsAtLimits : RegisterIntentCall(c, reg[1], reg[2])
    \/ \E c \in Users, id \in Ids : CancelIntentCall(c, id)
    \/ Tick
    \/ Settle

SpecRegister == Init /\ [][NextRegister]_vars

-----------------------------------------------------------------------------
(* Vocabulary of the properties *)

\* this step is a call of executeIntent being made (at top level or re-entrant)
IsExecCallStep == lastCall'.op = "executeIntent" /\ (InFlight => InFlight')

\* this step ends an execution attempt: executeIntent returns true or false
IsAttemptEnd == lastCall'.op = "executeIntent" /\ lastCall'.ret \in {"true", "false"}

\* this step ends an execution attempt in one of the catch branches
IsAttemptFailure == lastCall'.op = "executeIntent" /\ lastCall'.ret = "false"

StatsUnchanged ==
    UNCHANGED <<totalExecutions, successfulExecutions, failedExecutions, executionMetrics>>

-----------------------------------------------------------------------------
(* C1: when step k of a plan fails, the loop has entered steps 1..k and no  *)
(* later one, and registry and token state are those of the moment the      *)
(* attempt began except that the intent is Failed and stamped; of the       *)
(* statistics only totalExecutions, failedExecutions and the metrics move.  *)

C1_AllOrNothing ==
    [][IsAttemptFailure =>
        LET call == lastCall' IN
        /\ call.failedAt \in 1..Len(call.plan)
        /\ call.trace = [k \in 1..call.failedAt |-> k]
        /\ balances' = call.pre.balances
        /\ World' = [call.pre EXCEPT !.intents[call.id].status = "Failed",
                                     !.intents[call.id].executedAt = now]
        /\ successfulExecutions' = successfulExecutions
      ]_vars

\* step 3 of 5 failed after steps 1 and 2 had moved tokens
C1_Witness ==
    /\ lastCall.op = "executeIntent"
    /\ lastCall.ret = "false"
    /\ lastCall.plan = FiveStepPlan
    /\ lastCall.failedAt = 3
    /\ balances = lastCall.pre.balances

-----------------------------------------------------------------------------
(* C2: once Completed, an intent's status never changes, whoever calls     *)
(* whatever.                                                               *)

C2_CompletedIsTerminal ==
    [][\A id \in DOMAIN intents \cap DOMAIN intents' :
          intents[id].status = "Completed" => intents'[id].status = "Completed"]_vars

-----------------------------------------------------------------------------
(* C3: every status change an execution attempt makes is one of the        *)
(* enumerated transitions; in particular the intent passes through         *)
(* Executing and never goes from Parsed straight to Completed or Failed.   *)

EnumeratedTransitions ==
    {<<"Pending", "Parsed">>, <<"Parsed", "Executing">>, <<"Executing", "Completed">>,
     <<"Executing", "Failed">>, <<"Failed", "Executing">>, <<"Pending", "Cancelled">>,
     <<"Parsed", "Cancelled">>}

C3_AttemptFollowsStateMachine ==
    [][lastCall'.op = "executeIntent" =>
        \A id \in DOMAIN intents \cap DOMAIN intents' :
           intents'[id].status # intents[id].status =>
              <<intents[id].status, intents'[id].status>> \in EnumeratedTransitions]_vars

-----------------------------------------------------------------------------
(* C4: while an attempt on an intent is in flight a cancelIntent of that   *)
(* intent fails, and an attempt never ends by marking Completed or Failed  *)
(* an intent that is Cancelled.                                            *)

C4_CancelExecuteRace ==
    [][/\ (InFlight /\ lastCall'.op = "cancelIntent" /\ lastCall'.id = frame.id)
            => lastCall'.err # ""
       /\ (IsAttemptEnd /\ intents[lastCall'.id].status = "Cancelled")
            => intents'[lastCall'.id].status = "Cancelled"]_vars

-----------------------------------------------------------------------------
(* C5: every attempt that reaches step dispatch, completed or failed, adds *)
(* exactly one to the intent's executionCount.                             *)

C5_CountsEveryAttempt ==
    [][IsAttemptEnd =>
        intents'[lastCall'.id].executionCount
            = lastCall'.pre.intents[lastCall'.id].executionCount + 1]_vars

-----------------------------------------------------------------------------
(* C6: every failed attempt, named or low-level, makes the intent Failed,  *)
(* adds one to failedExecutions and leaves a metrics record of the attempt *)
(* with success = false.                                                   *)

C6_FailureFullyRecorded ==
    [][IsAttemptFailure =>
        /\ intents'[lastCall'.id].status = "Failed"
        /\ failedExecutions' = failedExecutions + 1
        /\ lastCall'.id \in DOMAIN executionMetrics'
        /\ executionMetrics'[lastCall'.id] =
              Metrics(GasUsed(lastCall'.trace), 0, FALSE)]_vars

-----------------------------------------------------------------------------
(* C7: a plan the step validator rejects is turned away before anything is *)
(* written.                                                                *)

\* the validator of the specification: bounds on the count, then per step
\* amount > 0, venue set, and for a Swap both tokens set and minOutput > 0
ValidStep(step) ==
    /\ step.amount > 0
    /\ step.protocol # Null
    /\ step.actionType = "Swap" =>
          step.tokenIn # Null /\ step.tokenOut # Null /\ step.minOutput > 0

ValidPlan(steps) ==
    /\ Len(steps) \in 1..MaxSteps
    /\ \A k \in 1..Len(steps) : ValidStep(steps[k])

C7_InvalidPlanRejectedUntouched ==
    [][(IsExecCallStep /\ ~ValidPlan(lastCall'.plan)) =>
        /\ lastCall'.ret = "revert"
        /\ intents' = intents
        /\ StatsUnchanged]_vars

-----------------------------------------------------------------------------
(* C8: executeIntent on an unknown intent, or one whose status is not      *)
(* Parsed, reverts and leaves intents, counters and metrics as they were.  *)

C8_NotParsedRejected ==
    [][(IsExecCallStep /\ (lastCall'.id \notin DOMAIN intents
                           \/ intents[lastCall'.id].status # "Parsed")) =>
        /\ lastCall'.ret = "revert"
        /\ lastCall'.err # ""
        /\ intents' = intents
        /\ StatsUnchanged]_vars

\* a call on a Failed intent was turned away
C8_Witness ==
    /\ lastCall.op = "executeIntent"
    /\ lastCall.err = "Intent not ready for execution"
    /\ intents[lastCall.id].status = "Failed"
    /\ StepCountCheck(lastCall.plan) = ""

-----------------------------------------------------------------------------
(* C9: executeIntent called by anyone but the intent's owner is rejected   *)
(* and changes nothing.                                                    *)

C9_OnlyOwnerExecutes ==
    [][(IsExecCallStep /\ lastCall'.id \in DOMAIN intents
          /\ lastCall'.caller # intents[lastCall'.id].user) =>
        /\ lastCall'.ret = "revert"
        /\ intents' = intents
        /\ StatsUnchanged]_vars

-----------------------------------------------------------------------------
(* C10: cancelIntent by anyone but the intent's creator fails with the     *)
(* creator-only error and leaves every intent as it was.                   *)

C10_OnlyCreatorCancels ==
    [][(lastCall'.op = "cancelIntent" /\ lastCall'.id \in DOMAIN intents
          /\ lastCall'.caller # intents[lastCall'.id].user) =>
        /\ lastCall'.err = "Only intent creator can cancel"
        /\ intents' = intents]_vars

\* the registry owner, who passes the executor check, was refused
C10_Witness ==
    /\ lastCall.op = "cancelIntent"
    /\ lastCall.caller = Owner
    /\ IsExecutor(World, lastCall.caller)
    /\ lastCall.id \in DOMAIN intents
    /\ lastCall.err = "Only intent creator can cancel"

-----------------------------------------------------------------------------
(* C11: markIntentExecuted on a Completed intent fails with "already       *)
(* completed" and changes nothing; by an executor on an intent in any      *)
(* other status it succeeds, sets Completed, stamps executedAt, adds one   *)
(* to executionCount and sets the execution hash; and a call that succeeds *)
(* on an intent completed before finds it in a retry (Failed, or Executing *)
(* again), so it left Completed through a Failed-and-retry cycle.          *)

C11_NoDoubleCompletion ==
    [][(lastCall'.op = "markIntentExecuted" /\ lastCall'.id \in DOMAIN intents) =>
        LET id  == lastCall'.id
            old == intents[id]
        IN
        /\ old.status = "Completed" =>
              /\ lastCall'.err # ""
              /\ IsExecutor(World, lastCall'.caller) =>
                    lastCall'.err = "Intent already completed"
              /\ intents' = intents
        /\ (old.status # "Completed" /\ IsExecutor(World, lastCall'.caller)) =>
              /\ lastCall'.err = ""
              /\ intents' = [intents EXCEPT ![id] =
                    [old EXCEPT !.status = "Completed", !.executedAt = now,
                                !.executionCount = @ + 1,
                                !.executionHash = Keccak(<<id, GasDirect, now>>)]]
        /\ (lastCall'.err = "" /\ old.executionCount >= 1) =>
              old.status \in {"Failed", "Executing"}]_vars

-----------------------------------------------------------------------------
(* C12: Failed is not terminal: executeIntent with a valid plan on a       *)
(* Failed intent is accepted as a retry (it is not turned away), so the    *)
(* intent can go on to Completed through the manager.                      *)

C12_FailedIsRetried ==
    [][(/\ IsExecCallStep
        /\ ~locked
        /\ IsExecutor(World, EM)
        /\ lastCall'.id \in DOMAIN intents
        /\ intents[lastCall'.id].status = "Failed"
        /\ ValidPlan(lastCall'.plan)) =>
        lastCall'.ret # "revert"]_vars

-----------------------------------------------------------------------------
(* C13: once Cancelled, an intent's status never changes again, whatever   *)
(* is called (a repeated cancelIntent included).                           *)

C13_CancelledIsTerminal ==
    [][\A id \in DOMAIN intents \cap DOMAIN intents' :
          intents[id].status = "Cancelled" => intents'[id].status = "Cancelled"]_vars

-----------------------------------------------------------------------------
(* C14: every successful registerIntent returns an id no earlier           *)
(* registration returned, also for the same user and description in the    *)
(* same block; the list of ids never holds an id twice; a call whose id    *)
(* names a stored intent fails and overwrites nothing.                     *)

NoDuplicates(seq) ==
    \A j, k \in 1..Len(seq) : j # k => seq[j] # seq[k]

C14_UniqueIds ==
    [][lastCall'.op = "registerIntent" =>
        LET id == lastCall'.id IN
        /\ lastCall'.err = "" =>
              /\ id \notin DOMAIN intents
              /\ allIntentIds' = Append(allIntentIds, id)
              /\ \A i \in DOMAIN intents : intents'[i] = intents[i]
        /\ id \in DOMAIN intents => lastCall'.err # "" /\ intents' = intents
        /\ NoDuplicates(allIntentIds')
        /\ DOMAIN intents' = {allIntentIds'[k] : k \in 1..Len(allIntentIds')}]_vars

\* the same user registered the same description twice in one block
C14_Witness ==
    /\ lastCall.op = "registerIntent"
    /\ lastCall.err = ""
    /\ Len(allIntentIds) >= 2
    /\ LET a == intents[allIntentIds[1]]
           b == intents[allIntentIds[2]]
       IN /\ a.user = b.user
          /\ a.naturalLanguage = b.naturalLanguage
          /\ a.createdAt = b.createdAt
          /\ allIntentIds[1] # allIntentIds[2]

-----------------------------------------------------------------------------
(* C15: registerIntent with an empty description, a zero estimate or an    *)
(* estimate above the ceiling fails and leaves intents, indexes and the    *)
(* per-user count as they were; any other call stores exactly one new      *)
(* intent: owned by the caller, Parsed, executionCount 0, executedAt 0,    *)
(* empty execution hash.                                                   *)

C15_RegisterValidatesInput ==
    [][lastCall'.op = "registerIntent" =>
        LET call == lastCall'
            id   == call.id
            bad  == \/ call.naturalLanguage = ""
                    \/ call.gasEstimate = 0
                    \/ call.gasEstimate > MaxGasEstimate
        IN
        /\ bad =>
              /\ call.err # ""
              /\ UNCHANGED <<intents, allIntentIds, userIntents, userIntentCount>>
        /\ ~bad =>
              /\ call.err = ""
              /\ id \notin DOMAIN intents
              /\ DOMAIN intents' = DOMAIN intents \cup {id}
              /\ \A i \in DOMAIN intents : intents'[i] = intents[i]
              /\ intents'[id] =
                    [user |-> call.caller, intentHash |-> id,
                     naturalLanguage |-> call.naturalLanguage, status |-> "Parsed",
                     createdAt |-> now, executedAt |-> 0,
                     gasEstimate |-> call.gasEstimate, executionCount |-> 0,
                     executionHash |-> ZeroHash]
              /\ allIntentIds' = Append(allIntentIds, id)
              /\ userIntents' = [userIntents EXCEPT ![call.caller] = Append(@, id)]
              /\ userIntentCount' = [userIntentCount EXCEPT ![call.caller] = @ + 1]]_vars

\* an estimate one above the ceiling was refused after an estimate at the
\* ceiling had been accepted
C15_Witness ==
    /\ lastCall.op = "registerIntent"
    /\ lastCall.gasEstimate = MaxGasEstimate + 1
    /\ lastCall.err = "Gas estimate exceeds maximum limit"
    /\ \E id \in DOMAIN intents : intents[id].gasEstimate = MaxGasEstimate

-----------------------------------------------------------------------------
(* C16: the registry owner passes the executor check in every state,       *)
(* whatever was added or removed: its updateIntentStatus and               *)
(* markIntentExecuted calls are never refused for lack of executor rights, *)
(* and removeExecutor(owner) fails and leaves the executor set unchanged.  *)

C16_OwnerAlwaysExecutor ==
    [][/\ IsExecutor(World, Owner)
       /\ (/\ lastCall'.op \in {"updateIntentStatus", "markIntentExecuted"}
           /\ lastCall'.caller = Owner
           /\ lastCall'.id \in DOMAIN intents
           /\ lastCall'.op = "markIntentExecuted" =>
                 intents[lastCall'.id].status # "Completed")
            => lastCall'.err = ""
       /\ (lastCall'.op = "removeExecutor" /\ lastCall'.executor = Owner)
            => lastCall'.err # "" /\ executors' = executors]_vars

\* the owner, once added to the executor set, could not be removed from it
C16_Witness ==
    /\ lastCall.op = "removeExecutor"
    /\ lastCall.caller = Owner
    /\ lastCall.executor = Owner
    /\ Owner \in executors
    /\ lastCall.err = "Cannot remove owner as executor"

-----------------------------------------------------------------------------
(* C17: the executor set changes only by a successful addExecutor or       *)
(* removeExecutor of the registry owner; a non-owner's call fails; adding  *)
(* a member and removing a non-member fail; each failure leaves the set    *)
(* unchanged; removing a just-added address other than the owner gives     *)
(* back the set as it was.                                                 *)

C17_OnlyOwnerChangesExecutors ==
    [][LET call == lastCall'
           acc  == call.op \in {"addExecutor", "removeExecutor"}
       IN
       /\ executors' # executors =>
             acc /\ call.caller = Owner /\ call.err = ""
       /\ (acc /\ call.caller # Owner) =>
             call.err = "Only owner can call this function" /\ executors' = executors
       /\ (acc /\ call.err # "") => executors' = executors
       /\ (call.op = "addExecutor" /\ call.caller = Owner
             /\ call.executor \in executors) =>
             call.err = "Address is already an executor"
       /\ (call.op = "removeExecutor" /\ call.caller = Owner
             /\ call.executor # Null /\ call.executor \notin executors) =>
             call.err = "Address is not an executor"
       /\ (call.op = "addExecutor" /\ call.err = "") =>
             /\ call.executor \notin executors
             /\ executors' = executors \cup {call.executor}
             /\ call.executor # Owner =>
                   LET r == RemoveExecutor(World', Owner, call.executor, now) IN
                   r.ok /\ r.w.executors = executors
       /\ (call.op = "removeExecutor" /\ call.err = "") =>
             /\ call.executor \in executors
             /\ executors' = executors \ {call.executor}]_vars

\* an executor, not being the owner, was refused when adding another
C17_Witness ==
    /\ lastCall.op = "addExecutor"
    /\ lastCall.caller = Bob
    /\ Bob \in executors
    /\ lastCall.executor = EM
    /\ lastCall.err = "Only owner can call this function"
    /\ EM \notin executors

-----------------------------------------------------------------------------
(* C18: whenever no attempt is in progress totalExecutions equals          *)
(* successfulExecutions + failedExecutions (while one is in progress it is *)
(* counted in totalExecutions alone); an attempt that ends adds exactly    *)
(* one to totalExecutions and to exactly one of the other two; a rejected  *)
(* call changes none; no counter ever decreases.                           *)

\* totalExecutions without the attempt still in progress
CommittedTotal == totalExecutions - (IF InFlight THEN 1 ELSE 0)

-----------------------------------------------------------------------------
(* C19: getSuccessRate returns 0 when nothing was executed and otherwise   *)
(* the floor of successfulExecutions * 100 / totalExecutions; the result   *)
(* lies in 0..100 in every state; after 3 successes and 1 failure it is 75.*)

C19_SuccessRate ==
    [][lastCall'.op = "getSuccessRate" =>
        LET rate == lastCall'.ret IN
        /\ rate \in 0..100
        /\ totalExecutions = 0 => rate = 0
        /\ totalExecutions > 0 =>
              /\ rate * totalExecutions <= successfulExecutions * 100
              /\ successfulExecutions * 100 < (rate + 1) * totalExecutions
        /\ (successfulExecutions = 3 /\ failedExecutions = 1 /\ ~InFlight) => rate = 75
        /\ UNCHANGED <<totalExecutions, successfulExecutions, failedExecutions>>]_vars

\* the rate was read after three successes and one failure
C19_Witness ==
    /\ lastCall.op = "getSuccessRate"
    /\ successfulExecutions = 3
    /\ failedExecutions = 1
    /\ totalExecutions = 4
    /\ lastCall.ret = 75

-----------------------------------------------------------------------------
(* C20: an attempt whose plan holds a Swap step with output (95% of the    *)
(* amount, rounded down) below its minOutput never returns true and never  *)
(* makes the intent Completed; when it fails the intent is Failed, and     *)
(* when it fails at that step the reason is "Output below minimum          *)
(* acceptable".                                                            *)

\* step k of the plan is a well-formed Swap whose output is below its floor
BelowFloor(plan, k) ==
    /\ plan[k].actionType = "Swap"
    /\ plan[k].amount > 0
    /\ plan[k].protocol # Null
    /\ plan[k].tokenIn # Null /\ plan[k].tokenOut # Null
    /\ plan[k].minOutput > 0
    /\ (plan[k].amount * SwapNumerator) \div SwapDenominator < plan[k].minOutput

C20_SlippageFloor ==
    [][(/\ lastCall'.op = "executeIntent"
        /\ \E k \in 1..Len(lastCall'.plan) : BelowFloor(lastCall'.plan, k)) =>
        LET call == lastCall' IN
        /\ call.ret # "true"
        /\ call.id \in DOMAIN intents =>
              (intents'[call.id].status = "Completed"
                  => intents[call.id].status = "Completed")
        /\ call.ret = "false" =>
              /\ intents'[call.id].status = "Failed"
              /\ BelowFloor(call.plan, call.failedAt) =>
                    call.reason = "Output below minimum acceptable"]_vars

\* a swap of Amt asking for one more than 95% of it failed on the floor
C20_Witness ==
    /\ lastCall.op = "executeIntent"
    /\ lastCall.plan = SlippagePlan
    /\ lastCall.ret = "false"
    /\ lastCall.failedAt = 1
    /\ lastCall.reason = "Output below minimum acceptable"
    /\ intents[lastCall.id].status = "Failed"

-----------------------------------------------------------------------------
(* C21: an attempt that succeeds has entered the steps one at a time in    *)
(* list order, leaves the intent Completed with executionCount one higher, *)
(* and reports as totalOutput the sum of the outputs realized: the amount  *)
(* of each non-Swap step and, for a Swap step, what the venue realized.    *)

C21_SuccessOutcome ==
    [][(lastCall'.op = "executeIntent" /\ lastCall'.ret = "true") =>
        LET call == lastCall' IN
        /\ call.trace = [k \in 1..Len(call.plan) |-> k]
        /\ intents'[call.id].status = "Completed"
        /\ intents'[call.id].executionCount =
              call.pre.intents[call.id].executionCount + 1
        /\ call.out = call.realized]_vars

-----------------------------------------------------------------------------
(* C22: for a non-empty list estimateGas returns 21000 plus 150000 per     *)
(* Swap step, 120000 per Stake or Unstake step and 100000 per Supply,      *)
(* Borrow or Withdraw step; every reordering of the list gets the same     *)
(* value; the call changes no state; a generic step costs less than a      *)
(* stake/unstake step, which costs less than a swap step.                  *)

CountOf(plan, types) ==
    Cardinality({k \in 1..Len(plan) : plan[k].actionType \in types})

\* q is a reordering of p
Reordering(p, q) ==
    /\ Len(p) = Len(q)
    /\ \A t \in ActionTypes : CountOf(p, {t}) = CountOf(q, {t})
    /\ \A k \in 1..Len(q) : \E j \in 1..Len(p) : q[k] = p[j]

-----------------------------------------------------------------------------
(* C23: a call of executeIntent made while an attempt is in progress (the  *)
(* venue of the pending step calls back) is rejected: it reverts, for the  *)
(* id under execution with the reentrancy guard's error; the intents, the  *)
(* statistics and the attempt in progress are as before the call, and the  *)
(* call does not start or queue an attempt of its own.                     *)

C23_ReentrantRejected ==
    [][(InFlight /\ IsExecCallStep) =>
        /\ lastCall'.ret = "revert"
        /\ lastCall'.id = frame.id => lastCall'.err = "ReentrancyGuard: reentrant call"
        /\ intents' = intents
        /\ StatsUnchanged
        /\ UNCHANGED <<frame, locked, balances>>]_vars

\* the token of a pending stake step called executeIntent for the id under
\* execution
C23_Witness ==
    /\ InFlight
    /\ lastCall.op = "executeIntent"
    /\ lastCall.id = frame.id
    /\ lastCall.caller = Callee(frame.steps[frame.i])
    /\ lastCall.plan # NoSteps
    /\ lastCall.err = "ReentrancyGuard: reentrant call"

-----------------------------------------------------------------------------
(* C24: a failed attempt leaves exactly one IntentExecutionFailed event.   *)
(* When executeSteps reverted with a reason string the event carries that  *)
(* string, which is not the marker; when it failed without one the event   *)
(* carries 'Low level execution error'.                                    *)

FailureEvents(events) ==
    LET IsFailure(e) == e.type = "IntentExecutionFailed"
    IN SelectSeq(events, IsFailure)

-----------------------------------------------------------------------------
(* C25: the executionCount of an intent never decreases, and it grows only *)
(* in the step in which an attempt of executeIntent on that intent         *)
(* succeeds; updateIntentStatus and cancelIntent leave it alone.           *)

C25_CountOnlyInAttempt ==
    [][\A id \in DOMAIN intents \cap DOMAIN intents' :
        /\ intents'[id].executionCount >= intents[id].executionCount
        /\ intents'[id].executionCount > intents[id].executionCount =>
              /\ lastCall'.op = "executeIntent"
              /\ lastCall'.ret = "true"
              /\ lastCall'.id = id
        /\ lastCall'.op \in {"updateIntentStatus", "cancelIntent"} =>
              intents'[id].executionCount = intents[id].executionCount]_vars

-----------------------------------------------------------------------------
(* C26: a registered intent has executedAt 0; executedAt changes only in a *)
(* step that leaves the intent Completed or Failed, and every successful   *)
(* updateIntentStatus into Completed or Failed and every successful        *)
(* markIntentExecuted sets it to the block time; so a Completed or Failed  *)
(* intent has executedAt set.  cancelIntent and updates into other         *)
(* statuses leave it as it was.                                            *)

Executed(intent) == intent.status \in {"Completed", "Failed"}

C26_ExecutedAtStamped ==
    [][\A id \in DOMAIN intents' :
        LET after == intents'[id] IN
        IF id \notin DOMAIN intents
        THEN after.executedAt = 0 /\ ~Executed(after)
        ELSE LET before == intents[id]
                 called(ops) == /\ lastCall'.op \in ops
                                /\ lastCall'.id = id
                                /\ lastCall'.err = ""
             IN
             /\ after.executedAt # before.executedAt => Executed(after)
             /\ (called({"updateIntentStatus", "markIntentExecuted"}) /\ Executed(after))
                   => after.executedAt = now
             /\ (called({"updateIntentStatus"}) /\ ~Executed(after))
                   => after.executedAt = before.executedAt
             /\ lastCall'.op = "cancelIntent" => after.executedAt = before.executedAt
             /\ Executed(after) => after.executedAt # 0
             /\ (~Executed(before) /\ before.executedAt = 0 /\ ~Executed(after))
                   => after.executedAt = 0]_vars

\* an intent was made Failed in the second block and carries that time
C26_Witness ==
    /\ lastCall.op = "updateIntentStatus"
    /\ lastCall.err = ""
    /\ lastCall.id \in DOMAIN intents
    /\ intents[lastCall.id].status = "Failed"
    /\ intents[lastCall.id].executedAt = now
    /\ intents[lastCall.id].createdAt < now

-----------------------------------------------------------------------------
(* C27: the registry's log only grows, by appending.  A step that changes  *)
(* an intent's status appends exactly one IntentStatusUpdated event for    *)
(* it, with the status before as old and the status after as new; no step  *)
(* appends more than one.  Replaying an intent's IntentRegistered event    *)
(* (which starts it at Parsed) and its IntentStatusUpdated events in order *)
(* gives the status the registry stores.                                   *)

StatusEventsOf(events, id) ==
    LET IsStatusOf(e) == e.type = "IntentStatusUpdated" /\ e.intentId = id
    IN SelectSeq(events, IsStatusOf)

RegisteredEventsOf(events, id) ==
    LET IsRegistrationOf(e) == e.type = "IntentRegistered" /\ e.intentId = id
    IN SelectSeq(events, IsRegistrationOf)

\* the status after replaying the first n events: "none" before the
\* registration, "broken" once an event does not continue from the status
\* replayed so far
RECURSIVE Replay(_, _, _)
Replay(events, id, n) ==
    IF n = 0 THEN "none"
    ELSE LET sofar == Replay(events, id, n - 1)
             e == events[n]
         IN
         IF e.type = "IntentRegistered" /\ e.intentId = id
         THEN IF sofar = "none" THEN "Parsed" ELSE "broken"
         ELSE IF e.type = "IntentStatusUpdated" /\ e.intentId = id
         THEN IF sofar = e.oldStatus THEN e.newStatus ELSE "broken"
         ELSE sofar

C27_LogIsAuditTrail ==
    [][LET appended == SubSeq(eventLog', Len(eventLog) + 1, Len(eventLog')) IN
       /\ Len(eventLog') >= Len(eventLog)
       /\ SubSeq(eventLog', 1, Len(eventLog)) = eventLog
       /\ \A id \in DOMAIN intents' :
             LET changes == StatusEventsOf(appended, id) IN
             /\ Len(changes) <= 1
             /\ id \in DOMAIN intents =>
                   /\ intents'[id].status # intents[id].status => Len(changes) = 1
                   /\ Len(changes) = 1 =>
                         /\ changes[1].oldStatus = intents[id].status
                         /\ changes[1].newStatus = intents'[id].status
                   /\ RegisteredEventsOf(appended, id) = << >>
             /\ id \notin DOMAIN intents =>
                   /\ Len(RegisteredEventsOf(appended, id)) = 1
                   /\ changes = << >>
             /\ Replay(eventLog', id, Len(eventLog')) = intents'[id].status]_vars

\* a registered intent was set to Executing, set back to Parsed and then
\* failed in an execution attempt: the log ends with that failure
C27_Witness ==
    /\ lastCall.op = "executeIntent"
    /\ lastCall.ret = "false"
    /\ Len(StatusEventsOf(eventLog, lastCall.id)) = 3
    /\ eventLog[Len(eventLog)].oldStatus = "Parsed"
    /\ eventLog[Len(eventLog)].newStatus = "Failed"
    /\ intents[lastCall.id].status = "Failed"

-----------------------------------------------------------------------------
(* C28: getIntentCount() grows by one with every successful registerIntent *)
(* and with nothing else, and is the sum of getUserIntentCount over the    *)
(* users; getUserIntents(u) is the list of all ids, in registration order, *)
(* restricted to the intents u owns, has no duplicates and has length      *)
(* getUserIntentCount(u); no step removes an intent or changes its owner,  *)
(* description, createdAt or cost estimate.                                *)

RECURSIVE SumOverUsers(_, _)
SumOverUsers(w, users) ==
    IF users = {} THEN 0
    ELSE LET u == CHOOSE x \in users : TRUE
         IN GetUserIntentCount(w, u) + SumOverUsers(w, users \ {u})

OwnedBy(w, user) ==
    LET IsOwned(id) == GetIntent(w, id).user = user
    IN SelectSeq(w.allIntentIds, IsOwned)

C28_IndexesConsistent ==
    [][LET after == World' IN
       /\ GetIntentCount(after) = GetIntentCount(World) +
             (IF lastCall'.op = "registerIntent" /\ lastCall'.err = "" THEN 1 ELSE 0)
       /\ GetIntentCount(after) = SumOverUsers(after, Users)
       /\ \A u \in Users :
             /\ GetUserIntents(after, u) = OwnedBy(after, u)
             /\ NoDuplicates(GetUserIntents(after, u))
             /\ Len(GetUserIntents(after, u)) = GetUserIntentCount(after, u)
       /\ \A id \in DOMAIN intents :
             /\ id \in DOMAIN intents'
             /\ intents'[id].user = intents[id].user
             /\ intents'[id].naturalLanguage = intents[id].naturalLanguage
             /\ intents'[id].createdAt = intents[id].createdAt
             /\ intents'[id].gasEstimate = intents[id].gasEstimate]_vars

\* two users own an intent each; the second one's was cancelled and the
\* first one's has now been executed
C28_Witness ==
    /\ lastCall.op = "executeIntent"
    /\ lastCall.ret = "true"
    /\ Len(allIntentIds) = 2
    /\ intents[allIntentIds[1]].user # intents[allIntentIds[2]].user
    /\ lastCall.id = allIntentIds[1]
    /\ intents[allIntentIds[2]].status = "Cancelled"

-----------------------------------------------------------------------------
(* C29: while the manager is not an executor of the registry, a call of    *)
(* executeIntent never returns: whether its steps succeed or fail it       *)
(* reverts, and registry, balances, counters and metrics are what they     *)
(* were when the call was made.                                            *)

C29_UnauthorizedManagerReverts ==
    [][(lastCall'.op = "executeIntent" /\ lastCall'.ret # "pending"
            /\ ~IsExecutor(World, EM)) =>
        /\ lastCall'.ret = "revert"
        /\ lastCall'.events = << >>
        /\ World' = lastCall'.pre
        /\ UNCHANGED <<successfulExecutions, failedExecutions, executionMetrics>>
        /\ IF InFlight /\ ~InFlight'
           THEN /\ World' = frame.snap
                /\ totalExecutions' = totalExecutions - 1
           ELSE /\ World' = World
                /\ totalExecutions' = totalExecutions]_vars

\* the steps of a plan all succeeded, the last of them in a venue, and the
\* call reverted in markIntentExecuted
C29_Witness ==
    /\ lastCall.op = "executeIntent"
    /\ lastCall.ret = "revert"
    /\ lastCall.err = "onlyExecutor"
    /\ lastCall.kind = "done"
    /\ Len(lastCall.trace) = Len(lastCall.plan)
    /\ HasExternalCall(lastCall.plan[Len(lastCall.plan)])
    /\ EM \notin executors
    /\ totalExecutions = 0
    /\ balances = lastCall.pre.balances

-----------------------------------------------------------------------------
(* C30: when only registerIntent, cancelIntent and executeIntent change    *)
(* statuses, totalExecutions is at most getIntentCount(), no intent has    *)
(* executionCount above 1, successfulExecutions is the number of Completed *)
(* intents and failedExecutions the number of intents that reached Failed  *)
(* (those that are Failed, or were cancelled after failing and so carry    *)
(* the time of the failure).                                               *)

ReachedFailed(intent) ==
    \/ intent.status = "Failed"
    \/ intent.status = "Cancelled" /\ intent.executedAt # 0

C30_OneAttemptPerIntent ==
    /\ totalExecutions <= GetIntentCount(World)
    /\ \A id \in DOMAIN intents : intents[id].executionCount <= 1
    /\ successfulExecutions =
          Cardinality({id \in DOMAIN intents : intents[id].status = "Completed"})
    /\ failedExecutions =
          Cardinality({id \in DOMAIN intents : ReachedFailed(intents[id])})
    /\ totalExecutions = successfulExecutions + failedExecutions
                            + (IF InFlight THEN 1 ELSE 0)

\* every registered intent was attempted: one completed, one failed and was
\* then cancelled by its creator
C30_Witness ==
    /\ lastCall.op = "cancelIntent"
    /\ lastCall.err = ""
    /\ Len(allIntentIds) = MaxRegs
    /\ totalExecutions = GetIntentCount(World)
    /\ successfulExecutions >= 1
    /\ failedExecutions >= 1
    /\ intents[lastCall.id].executedAt # 0

====
